---- MODULE Spec2Model ----
(***************************************************************************)
(* Model of binance_ohlcv_collector.                                       *)
(*                                                                         *)
(* Part 1: the fetch worker pool of downloader.py (download_files_async,   *)
(* download_with_semaphore, _download_single_file,                         *)
(* _download_file_with_retry, _verify_checksum, _parse_checksum_file).     *)
(*                                                                         *)
(* The pool runs on one asyncio event loop, so a coroutine runs without    *)
(* interleaving from one await to the next.  Each action below is one such *)
(* run: from the point where a coroutine is resumed (semaphore acquired, a *)
(* response or an exception delivered by client.get, a sleep over) to the  *)
(* next await or to the end of the coroutine.                              *)
(*                                                                         *)
(* Part 2: the planner (create_download_tasks and its date generators),    *)
(* the decoder and merge stage of processor.py (process_zip_file,          *)
(* process_zip_files), the validation of validation.py (detect_gaps,       *)
(* calculate_expected_bars, validate_dataframe) and the single-symbol run  *)
(* of __init__.py (_download_single).  Each has its own variables and its  *)
(* own specification; the variables of the parts that do not run keep the  *)
(* value None.                                                             *)
(***************************************************************************)
EXTENDS Integers, Sequences, FiniteSets, TLC

\* ------------------------------------------------------------------ bounds
MaxTasks == 2
MaxRetries == 2
MaxConcurrency == 2

\* --------------------------------------------------------------- constants
NoFile == "absent"          \* Path.exists() is false
OldBytes == "b0"            \* content of a file present before the call
Bytes == {"b1", "b2"}       \* bodies the archive endpoint can answer with
None == "None"              \* Python None

HTTP_OK == 200
HTTP_NOT_FOUND == 404
HTTP_RATE_LIMIT == 429
HTTP_SERVER_ERROR == 500

\* exceptions client.get can raise (httpx): the two the retry loop catches and
\* one transport error it does not (httpx.ReadError stands for the others)
NoExc == "none"
TimeoutException == "TimeoutException"
ConnectError == "ConnectError"
ReadError == "ReadError"

\* error texts of the DownloadResult (str(e) without the url / file name)
ErrNotFound == "File not found"
ErrRateLimit == "Rate limit exceeded"
ErrAttempts == "Failed to download after attempts"
ErrChecksum == "Checksum mismatch"

VARIABLES
    \* arguments of download_files_async
    tasks,          \* list[DownloadTask]
    verify, concurrency, retries, force, progress_callback,
    \* the file system: destination path -> content (NoFile when absent)
    files,
    files0,         \* history: the file system when the call started
    \* asyncio.Semaphore(concurrency)
    sem,            \* its counter: free slots
    holders,        \* the tasks inside the `async with semaphore` body
    \* one coroutine download_with_semaphore per task
    pc,             \* "pending" | "get" | "sleep" | "checksum" | "done" | "raised" | "cancelled"
    attempt,        \* loop variable of _download_file_with_retry
    result,         \* the DownloadResult the coroutine returned, or None
    \* what the environment observed (history)
    reqs,           \* archive requests made for the task
    ck_reqs,        \* checksum requests made for the task
    sleeps,         \* the asyncio.sleep durations of the task, in order
    last_resp,      \* the last answer to an archive request of the task
    ck_resp,        \* the answer to the checksum request of the task
    callbacks,      \* the progress_callback invocations, in order
    completed,      \* the tasks in the order _download_single_file returned
    \* the call itself
    call,           \* "running" | "returned" | "raised"
    results         \* the returned list

VARIABLES
    \* create_download_tasks
    plan_args,      \* today and the arguments start_date, end_date, months, days
    plan,           \* what the call gave: the tasks and granularity, or the error
    \* process_zip_files
    zip_paths,      \* the archives of the list, in order
    decoded,        \* what process_zip_file gave for each archive, or the error
    processed,      \* what the call gave: the table, or the error
    \* validate_dataframe and detect_gaps
    df,             \* the table
    timeframe, check_gaps,
    validation,     \* what validate_dataframe gave: the result, or the error
    gaps,           \* what detect_gaps gave
    \* _download_single, from the return of download_files_async on
    run_args,       \* the DownloadResult list and the validate flag
    run_pc,         \* "check" | "process" | "validate" | "cleanup" | "returned" | "raised"
    run_log,        \* what the run did, in order
    disk,           \* the archives under the raw directory, the temporary directories
    run_table           \* the table process_symbol built, and from which archives

VARIABLES
    \* two calls of download_files_async on the same tasks, one after the other
    run,            \* 1 during the first call, 2 during the second
    first_results           \* the list the first call returned

poolVars == <<tasks, verify, concurrency, retries, force, progress_callback,
              files, files0, sem, holders, pc, attempt, result, reqs, ck_reqs,
              sleeps, last_resp, ck_resp, callbacks, completed, call, results,
              run, first_results>>
planVars == <<plan_args, plan>>
procVars == <<zip_paths, decoded, processed>>
valVars == <<df, timeframe, check_gaps, validation, gaps>>
runVars == <<run_args, run_pc, run_log, disk, run_table>>

\* the parts that do not run during download_files_async
others == <<planVars, procVars, valVars, runVars>>

vars == <<poolVars, others>>

\* a part that does not run
PlanIdle == plan_args = None /\ plan = None
ProcIdle == zip_paths = None /\ decoded = None /\ processed = None
ValIdle ==
    /\ df = None /\ timeframe = None /\ check_gaps = None
    /\ validation = None /\ gaps = None
RunIdle ==
    /\ run_args = None /\ run_pc = None /\ run_log = None
    /\ disk = None /\ run_table = None

\* what stays as it is while one call runs
args == <<tasks, verify, concurrency, retries, force, progress_callback, files0,
          run, first_results>>

Idx == 1..Len(tasks)

\* ------------------------------------------------------------ data classes
DownloadTask(i) == [url |-> i, checksum_url |-> i, output_path |-> i]

DownloadResult(p, s, e, a) ==
    [path |-> p, success |-> s, error |-> e, already_existed |-> a]

\* an answer of client.get: an exception, or a response with status and body
Response(st, body) == [exc |-> NoExc, status |-> st, content |-> body]
Raised(e) == [exc |-> e, status |-> 0, content |-> NoFile]
NoResponse == [exc |-> NoExc, status |-> 0, content |-> NoFile]

ArchiveAnswers ==
    {Response(HTTP_OK, b) : b \in Bytes}
    \cup {Response(st, NoFile) : st \in {HTTP_NOT_FOUND, HTTP_RATE_LIMIT, HTTP_SERVER_ERROR}}
    \cup {Raised(e) : e \in {TimeoutException, ConnectError, ReadError}}

\* hashlib.sha256(content).hexdigest(): lower-case hex, one digest per content
Sha256(content) ==
    CASE content = "b0" -> "c0"
      [] content = "b1" -> "a1"
      [] content = "b2" -> "b2"
      [] OTHER -> "e3"

\* str.lower() on the hex strings of the model
Lower(s) ==
    CASE s = "A1" -> "a1"
      [] s = "B2" -> "b2"
      [] s = "C0" -> "c0"
      [] OTHER -> s

\* bodies of the checksum resource, as the token list content.strip().split()
\* yields ("<digest>  <filename>"; the empty body has no token)
ChecksumBodies == { <<>>, <<"a1", "f.zip">>, <<"A1", "f.zip">>, <<"b2", "f.zip">> }

ChecksumAnswers ==
    {Response(HTTP_OK, b) : b \in ChecksumBodies}
    \cup {Response(st, <<>>) : st \in {HTTP_NOT_FOUND, HTTP_SERVER_ERROR}}
    \cup {Raised(e) : e \in {TimeoutException, ConnectError}}

\* ---------------------------------------------------------- pure functions
\* faulty variant: no destination is ever found
exists_never(fs, p) == FALSE

\* Path.exists()
exists(fs, p) == fs[p] # NoFile

\* Response.raise_for_status(): HTTPStatusError for an error status
is_http_error(resp) == resp.exc = NoExc /\ resp.status # HTTP_OK

\* _parse_checksum_file: the first token; ValueError when there is none
parse_ok(body) == Len(body) >= 1
parse_checksum_file(body) == body[1]

\* faulty variant: the digests compared as they are written
verify_checksum_case_sensitive(content, expected_checksum) ==
    Sha256(content) = expected_checksum

\* _verify_checksum: compares the digests ignoring case
verify_checksum(content, expected_checksum) ==
    Lower(Sha256(content)) = Lower(expected_checksum)

\* faulty variant: the downloaded file stays after a checksum mismatch
unlink_kept(fs, p) == fs

\* output_path.unlink(missing_ok=True) after a checksum mismatch
unlink(fs, p) == [fs EXCEPT ![p] = NoFile]

\* faulty variant: an existing destination is skipped whatever force says
skip_existing_ignores_force(fs, p, f) == exists(fs, p)

\* faulty variant: the force flag read the wrong way round
skip_existing_inverted(fs, p, f) == exists(fs, p) /\ f

\* _download_single_file: the skip test
skip_existing(fs, p, f) == exists(fs, p) /\ ~f

\* _download_file_with_retry: statuses that end the loop at once
is_not_found(resp) == is_http_error(resp) /\ resp.status = HTTP_NOT_FOUND
\* faulty variant: 429 not singled out, so it is retried like any other status
is_rate_limited_never(resp) == FALSE

is_rate_limited(resp) == is_http_error(resp) /\ resp.status = HTTP_RATE_LIMIT

\* _download_file_with_retry: failures the loop records in last_error
is_retryable(resp) ==
    \/ is_http_error(resp) /\ ~is_not_found(resp) /\ ~is_rate_limited(resp)
    \/ resp.exc \in {TimeoutException, ConnectError}

\* _download_file_with_retry: `if attempt < retries: sleep(2**attempt)`
attempts_remain(a, r) == a < r

\* faulty variant: linear instead of exponential backoff
backoff_linear(a) == 2 * a

backoff(a) == 2 ^ a

\* asyncio.Semaphore(concurrency)
semaphore(c) == c

\* faulty variant: the coroutine body entered without waiting for a slot
can_acquire_always(s) == TRUE

\* `async with semaphore`: entered only while the counter is positive
can_acquire(s) == s > 0

\* faulty variant: the callback only hears of the downloads that succeeded
progress_calls_success_only(cbs, i, r, h) ==
    IF progress_callback /\ r.success
    THEN Append(cbs, [task |-> i, result |-> r, holding |-> i \in h])
    ELSE cbs

\* progress_callback(result), called inside the `async with` body
progress_calls(cbs, i, r, h) ==
    IF progress_callback
    THEN Append(cbs, [task |-> i, result |-> r, holding |-> i \in h])
    ELSE cbs

\* faulty variant: the results in the order the coroutines finished
gather_as_completed(res, order) == [k \in 1..Len(order) |-> res[completed[k]]]

\* asyncio.gather: the results in the order of the awaitables
gather(res, order) == [i \in 1..Len(order) |-> res[i]]

\* ------------------------------------------------------------------- Init
Init ==
    /\ \E n \in 0..MaxTasks : tasks = [i \in 1..n |-> DownloadTask(i)]
    /\ verify \in BOOLEAN
    /\ concurrency \in 0..MaxConcurrency
    /\ retries \in 0..MaxRetries
    /\ force \in BOOLEAN
    /\ progress_callback \in BOOLEAN
    /\ files0 \in [Idx -> {NoFile, OldBytes}]
    /\ files = files0
    /\ sem = semaphore(concurrency)
    /\ holders = {}
    /\ pc = [i \in Idx |-> "pending"]
    /\ attempt = [i \in Idx |-> 0]
    /\ result = [i \in Idx |-> None]
    /\ reqs = [i \in Idx |-> 0]
    /\ ck_reqs = [i \in Idx |-> 0]
    /\ sleeps = [i \in Idx |-> <<>>]
    /\ last_resp = [i \in Idx |-> NoResponse]
    /\ ck_resp = [i \in Idx |-> NoResponse]
    /\ callbacks = <<>>
    /\ completed = <<>>
    /\ call = "running"
    /\ results = None
    /\ run = 1
    /\ first_results = <<>>
    /\ PlanIdle /\ ProcIdle /\ ValIdle /\ RunIdle

\* no call of download_files_async
PoolIdle ==
    /\ tasks = <<>>
    /\ verify = None /\ concurrency = None /\ retries = None
    /\ force = None /\ progress_callback = None
    /\ files = <<>> /\ files0 = <<>>
    /\ sem = None /\ holders = {}
    /\ pc = <<>> /\ attempt = <<>> /\ result = <<>>
    /\ reqs = <<>> /\ ck_reqs = <<>> /\ sleeps = <<>>
    /\ last_resp = <<>> /\ ck_resp = <<>>
    /\ callbacks = <<>> /\ completed = <<>>
    /\ call = None /\ results = None
    /\ run = None /\ first_results = <<>>

\* ------------------------------------------------- ends of the coroutine
\* download_with_semaphore from the return of _download_single_file on:
\* the callback, then the exit of `async with semaphore`, then the return.
\* h and s are the holders and the semaphore counter while i holds its slot.
Return(i, r, h, s) ==
    /\ result' = [result EXCEPT ![i] = r]
    /\ completed' = Append(completed, i)
    /\ callbacks' = progress_calls(callbacks, i, r, h)
    /\ holders' = h \ {i}
    /\ sem' = s + 1
    /\ pc' = [pc EXCEPT ![i] = "done"]

\* an exception no except clause catches leaves both functions; the
\* `async with` releases the slot, no result, no callback
Propagate(i) ==
    /\ pc' = [pc EXCEPT ![i] = "raised"]
    /\ holders' = holders \ {i}
    /\ sem' = sem + 1
    /\ UNCHANGED <<result, completed, callbacks>>

\* ---------------------------------------------------------------- actions
\* The coroutine enters `async with semaphore`, tests the destination and
\* either returns at once or makes the first archive request.
Start(i) ==
    /\ pc[i] = "pending"
    /\ can_acquire(sem)
    /\ LET p == tasks[i].output_path IN
       IF skip_existing(files, p, force)
       THEN /\ Return(i, DownloadResult(p, TRUE, None, TRUE), holders \cup {i}, sem - 1)
            /\ UNCHANGED <<reqs, attempt>>
       ELSE /\ pc' = [pc EXCEPT ![i] = "get"]
            /\ attempt' = [attempt EXCEPT ![i] = 0]
            /\ reqs' = [reqs EXCEPT ![i] = @ + 1]
            /\ sem' = sem - 1
            /\ holders' = holders \cup {i}
            /\ UNCHANGED <<result, completed, callbacks>>
    /\ UNCHANGED <<others, args, files, ck_reqs, sleeps, last_resp, ck_resp, call, results>>

\* client.get(task.url) answers attempt number attempt[i].
ArchiveAnswer(i, resp) ==
    /\ pc[i] = "get"
    /\ last_resp' = [last_resp EXCEPT ![i] = resp]
    /\ LET p == tasks[i].output_path IN
       CASE resp.exc = NoExc /\ ~is_http_error(resp) ->
              /\ files' = [files EXCEPT ![p] = resp.content]
              /\ IF verify
                 THEN /\ pc' = [pc EXCEPT ![i] = "checksum"]
                      /\ ck_reqs' = [ck_reqs EXCEPT ![i] = @ + 1]
                      /\ UNCHANGED <<result, completed, callbacks, holders, sem>>
                 ELSE /\ Return(i, DownloadResult(p, TRUE, None, FALSE), holders, sem)
                      /\ UNCHANGED ck_reqs
              /\ UNCHANGED sleeps
         [] is_not_found(resp) ->
              /\ Return(i, DownloadResult(p, FALSE, ErrNotFound, FALSE), holders, sem)
              /\ UNCHANGED <<files, ck_reqs, sleeps>>
         [] is_rate_limited(resp) ->
              /\ Return(i, DownloadResult(p, FALSE, ErrRateLimit, FALSE), holders, sem)
              /\ UNCHANGED <<files, ck_reqs, sleeps>>
         [] is_retryable(resp) ->
              /\ IF attempts_remain(attempt[i], retries)
                 THEN /\ pc' = [pc EXCEPT ![i] = "sleep"]
                      /\ sleeps' = [sleeps EXCEPT ![i] = Append(@, backoff(attempt[i]))]
                      /\ UNCHANGED <<result, completed, callbacks, holders, sem>>
                 ELSE /\ Return(i, DownloadResult(p, FALSE, ErrAttempts, FALSE), holders, sem)
                      /\ UNCHANGED sleeps
              /\ UNCHANGED <<files, ck_reqs>>
         [] OTHER ->
              /\ Propagate(i)
              /\ UNCHANGED <<files, ck_reqs, sleeps>>
    /\ UNCHANGED <<others, args, attempt, reqs, ck_resp, call, results>>

\* asyncio.sleep is over: the next iteration of the retry loop.
Wake(i) ==
    /\ pc[i] = "sleep"
    /\ attempt' = [attempt EXCEPT ![i] = @ + 1]
    /\ reqs' = [reqs EXCEPT ![i] = @ + 1]
    /\ pc' = [pc EXCEPT ![i] = "get"]
    /\ UNCHANGED <<others, args, files, sem, holders, result, ck_reqs, sleeps, last_resp,
                   ck_resp, callbacks, completed, call, results>>

\* client.get(task.checksum_url) answers.
ChecksumAnswer(i, resp) ==
    /\ pc[i] = "checksum"
    /\ ck_resp' = [ck_resp EXCEPT ![i] = resp]
    /\ LET p == tasks[i].output_path IN
       CASE resp.exc # NoExc ->
              /\ Propagate(i)
              /\ UNCHANGED files
         [] is_http_error(resp) ->
              /\ Return(i, DownloadResult(p, TRUE, None, FALSE), holders, sem)
              /\ UNCHANGED files
         [] OTHER ->
              IF ~parse_ok(resp.content)
              THEN /\ Propagate(i)
                   /\ UNCHANGED files
              ELSE IF verify_checksum(files[p], parse_checksum_file(resp.content))
              THEN /\ Return(i, DownloadResult(p, TRUE, None, FALSE), holders, sem)
                   /\ UNCHANGED files
              ELSE /\ files' = unlink(files, p)
                   /\ Return(i, DownloadResult(p, FALSE, ErrChecksum, FALSE), holders, sem)
    /\ UNCHANGED <<others, args, attempt, reqs, ck_reqs, sleeps, last_resp, call, results>>

\* asyncio.gather has all its results: the client is closed, the list returned.
GatherReturn ==
    /\ call = "running"
    /\ \A i \in Idx : pc[i] = "done"
    /\ call' = "returned"
    /\ results' = gather(result, tasks)
    /\ UNCHANGED <<others, args, files, sem, holders, pc, attempt, result, reqs, ck_reqs,
                   sleeps, last_resp, ck_resp, callbacks, completed>>

\* asyncio.gather re-raises the first exception of a coroutine.
GatherRaise ==
    /\ call = "running"
    /\ \E i \in Idx : pc[i] = "raised"
    /\ call' = "raised"
    /\ UNCHANGED <<others, args, files, sem, holders, pc, attempt, result, reqs, ck_reqs,
                   sleeps, last_resp, ck_resp, callbacks, completed, results>>

\* asyncio.run cancels the coroutines still alive once the call has raised.
Cancel(i) ==
    /\ call = "raised"
    /\ pc[i] \in {"pending", "get", "sleep", "checksum"}
    /\ pc' = [pc EXCEPT ![i] = "cancelled"]
    /\ holders' = holders \ {i}
    /\ sem' = IF i \in holders THEN sem + 1 ELSE sem
    /\ UNCHANGED <<others, args, files, attempt, result, reqs, ck_reqs, sleeps, last_resp,
                   ck_resp, callbacks, completed, call, results>>

Next ==
    \/ \E i \in Idx : Start(i)
    \/ \E i \in Idx : \E resp \in ArchiveAnswers : ArchiveAnswer(i, resp)
    \/ \E i \in Idx : Wake(i)
    \/ \E i \in Idx : \E resp \in ChecksumAnswers : ChecksumAnswer(i, resp)
    \/ GatherReturn
    \/ GatherRaise
    \/ \E i \in Idx : Cancel(i)

Spec == Init /\ [][Next]_vars

\* ------------------------------------------------------------- type check
TypeOK ==
    /\ Len(tasks) \in 0..MaxTasks
    /\ pc \in [Idx -> {"pending", "get", "sleep", "checksum", "done", "raised", "cancelled"}]
    /\ attempt \in [Idx -> 0..MaxRetries]
    /\ sem \in Int
    /\ holders \subseteq Idx
    /\ call \in {"running", "returned", "raised"}

\* ================================================================== claims
\* shorthands over the history of one task
Path(i) == tasks[i].output_path
Finished(i) == pc[i] = "done"
Succeeded(i) == Finished(i) /\ result[i].success
InFlight == {i \in Idx : pc[i] \in {"get", "sleep", "checksum"}}
Downloaded(i) == last_resp[i].exc = NoExc /\ last_resp[i].status = HTTP_OK
FailedRetryably(i) ==
    \/ last_resp[i].exc \in {TimeoutException, ConnectError}
    \/ last_resp[i].exc = NoExc /\ last_resp[i].status = HTTP_SERVER_ERROR
Powers(n) == [k \in 1..n |-> 2 ^ (k - 1)]

\* C1: whatever goes wrong while one descriptor is processed, the call
\* returns normally: no coroutine ends with an exception, the call never
\* raises, and no other descriptor is cut short.
C1_NoWholeCallError ==
    /\ call # "raised"
    /\ \A i \in Idx : pc[i] \notin {"raised", "cancelled"}

\* C2: when the call has returned there is one DownloadResult per descriptor,
\* result i is the outcome of descriptor i and carries its output_path.
C2_OneResultPerDescriptor ==
    call = "returned" =>
        /\ Len(results) = Len(tasks)
        /\ \A i \in Idx : /\ results[i] = result[i]
                          /\ results[i].path = tasks[i].output_path

\* C2 witness: two descriptors, the second finished first, the call returned.
C2_Witness ==
    /\ call = "returned"
    /\ completed = <<2, 1>>
    /\ ~result[1].success /\ result[2].success

\* C3: at every moment at most `concurrency` descriptors are being processed
\* (hold a slot), and the free slots and the held ones add up to `concurrency`.
C3_BoundedInFlight ==
    /\ Cardinality(InFlight) <= concurrency
    /\ holders = InFlight
    /\ sem + Cardinality(holders) = concurrency

\* C3 witness: every slot is taken and a further descriptor waits.
C3_Witness ==
    /\ concurrency = 1
    /\ Cardinality(InFlight) = 1
    /\ \E i \in Idx : pc[i] = "pending"

\* C4: the retry loop makes at most retries+1 archive requests; the k-th
\* failed attempt (from 0) is followed by a sleep of 2^k and attempt k+1 when
\* attempts remain; no sleep follows the last attempt; when every attempt
\* failed retryably there were exactly retries+1 requests and the outcome is
\* a failure; a successful attempt ends the loop.
C4_RetryLoop ==
    \A i \in Idx :
        /\ reqs[i] <= retries + 1
        /\ Len(sleeps[i]) <= retries
        /\ sleeps[i] = Powers(Len(sleeps[i]))
        /\ pc[i] = "get" => reqs[i] = attempt[i] + 1 /\ Len(sleeps[i]) = attempt[i]
        /\ pc[i] = "sleep" =>
              /\ FailedRetryably(i)
              /\ attempt[i] < retries
              /\ reqs[i] = attempt[i] + 1
              /\ Len(sleeps[i]) = attempt[i] + 1
        /\ pc[i] \in {"checksum", "done", "raised"} /\ reqs[i] > 0 =>
              reqs[i] = attempt[i] + 1 /\ Len(sleeps[i]) = attempt[i]
        /\ Finished(i) /\ FailedRetryably(i) =>
              /\ reqs[i] = retries + 1
              /\ result[i].success = FALSE
              /\ result[i].error = ErrAttempts
        /\ Downloaded(i) => pc[i] \notin {"get", "sleep"}

\* C4 witness: three attempts failed, sleeps of 1 and 2 between them.
C4_Witness ==
    \E i \in Idx :
        /\ Finished(i) /\ FailedRetryably(i)
        /\ retries = 2 /\ reqs[i] = 3 /\ sleeps[i] = <<1, 2>>

\* C5: a 404 or a 429 answer to an archive request ends the retry loop at
\* once: the coroutine is finished, no request and no sleep followed, the
\* destination is as it was, and the outcome is a failure whose error is the
\* not-found text for 404 and the rate-limit text for 429.
C5_FatalStatus ==
    \A i \in Idx :
        last_resp[i].exc = NoExc /\ last_resp[i].status \in {HTTP_NOT_FOUND, HTTP_RATE_LIMIT} =>
            /\ Finished(i)
            /\ reqs[i] = attempt[i] + 1
            /\ Len(sleeps[i]) = attempt[i]
            /\ ck_reqs[i] = 0
            /\ files[Path(i)] = files0[Path(i)]
            /\ result[i].success = FALSE
            /\ result[i].error =
                 (IF last_resp[i].status = HTTP_NOT_FOUND THEN ErrNotFound ELSE ErrRateLimit)
            /\ ErrNotFound # ErrRateLimit

\* C5 witness: a 429 at the second attempt, after one retryable failure.
C5_Witness ==
    \E i \in Idx :
        /\ last_resp[i].status = HTTP_RATE_LIMIT
        /\ attempt[i] = 1 /\ Finished(i)

\* C6: with verify, when the checksum resource was retrieved and has a first
\* token: if the digest of the downloaded bytes differs from it ignoring case,
\* the file is deleted and the outcome is a checksum failure; if they agree,
\* the file is kept and the outcome is a success.
C6_ChecksumDecides ==
    \A i \in Idx :
        (/\ verify /\ Downloaded(i)
         /\ ck_resp[i].exc = NoExc /\ ck_resp[i].status = HTTP_OK
         /\ Len(ck_resp[i].content) >= 1) =>
            /\ Finished(i)
            /\ IF Lower(Sha256(last_resp[i].content)) # Lower(ck_resp[i].content[1])
               THEN /\ files[Path(i)] = NoFile
                    /\ result[i].success = FALSE
                    /\ result[i].error = ErrChecksum
               ELSE /\ files[Path(i)] = last_resp[i].content
                    /\ result[i].success = TRUE
                    /\ result[i].error = None

\* C6 witness: one file verified against a digest in upper case and kept,
\* another one failed verification and was deleted.
C6_Witness ==
    /\ \E i \in Idx : /\ Finished(i) /\ result[i].success
                      /\ ck_resp[i].status = HTTP_OK /\ ck_resp[i].content = <<"A1", "f.zip">>
    /\ \E i \in Idx : Finished(i) /\ result[i].error = ErrChecksum

\* C7: a descriptor whose destination did not exist before the call and whose
\* processing is over without a success outcome has no file at its
\* destination; and a success outcome means the destination exists.
C7_NoFileWithoutSuccess ==
    \A i \in Idx :
        /\ (/\ files0[Path(i)] = NoFile
            /\ pc[i] \in {"done", "raised", "cancelled"}
            /\ ~Succeeded(i))
              => files[Path(i)] = NoFile
        /\ Succeeded(i) => files[Path(i)] # NoFile

\* C8: a destination that exists when force is false gives success with
\* already_existed, no archive request, no checksum request, file unchanged.
C8_SkipExisting ==
    \A i \in Idx :
        (files0[Path(i)] # NoFile /\ ~force /\ pc[i] \notin {"pending", "cancelled"}) =>
            /\ Finished(i)
            /\ result[i] = DownloadResult(Path(i), TRUE, None, TRUE)
            /\ reqs[i] = 0
            /\ ck_reqs[i] = 0
            /\ files[Path(i)] = files0[Path(i)]

\* C8 witness: with verify on, an existing file was skipped.
C8_Witness ==
    \E i \in Idx :
        /\ verify /\ ~force /\ files0[Path(i)] = OldBytes
        /\ Finished(i) /\ result[i].already_existed

\* C9: with verify, when the archive was downloaded and the checksum resource
\* could not be retrieved (an HTTP error status, or no answer at all), the
\* file stays and the outcome is a success with no error.
C9_ChecksumUnavailable ==
    \A i \in Idx :
        (/\ verify /\ Downloaded(i)
         /\ (ck_resp[i].exc # NoExc \/ (ck_resp[i].exc = NoExc /\ ck_resp[i].status \in {HTTP_NOT_FOUND, HTTP_SERVER_ERROR}))) =>
            /\ Finished(i)
            /\ result[i] = DownloadResult(Path(i), TRUE, None, FALSE)
            /\ files[Path(i)] = last_resp[i].content

\* C10: with a progress callback, every invocation gets the DownloadResult of
\* its descriptor, while the descriptor still holds its slot; no descriptor is
\* reported twice; the invocations are in completion order; and when the call
\* has returned every descriptor was reported once, with the result returned.
C10_ProgressCallback ==
    progress_callback =>
        /\ \A k \in 1..Len(callbacks) :
              /\ callbacks[k].task = completed[k]
              /\ callbacks[k].result = result[callbacks[k].task]
              /\ callbacks[k].holding
              /\ \A m \in 1..Len(callbacks) : callbacks[m].task = callbacks[k].task => m = k
        /\ Len(callbacks) = Len(completed)
        /\ call = "returned" =>
              /\ Len(callbacks) = Len(tasks)
              /\ \A i \in Idx : \E k \in 1..Len(callbacks) :
                    callbacks[k].task = i /\ callbacks[k].result = results[i]

\* C10 witness: two descriptors reported in completion order, the second
\* first and as a failure, and the call returned.
C10_Witness ==
    /\ progress_callback
    /\ call = "returned"
    /\ Len(callbacks) = 2
    /\ callbacks[1].task = 2 /\ ~callbacks[1].result.success
    /\ callbacks[2].task = 1

\* ======================================================= part 2: the planner
\* ------------------------------------------------------------------ bounds
MaxCount == 3               \* the largest months= / days= argument drawn

\* Optional[T]: None is the empty tuple, a value v is <<v>>
Optional(S) == {<<>>} \cup {<<v>> : v \in S}
is_none(x) == x = <<>>
value(x) == x[1]

\* ------------------------------------------------------- datetime.date
date(y, m, d) == [y |-> y, m |-> m, d |-> d]

is_leap(y) == y % 4 = 0 /\ (y % 100 # 0 \/ y % 400 = 0)

days_in_month(y, m) ==
    CASE m = 2 -> (IF is_leap(y) THEN 29 ELSE 28)
      [] m \in {4, 6, 9, 11} -> 30
      [] OTHER -> 31

\* a >= b on dates
date_ge(a, b) ==
    \/ a.y > b.y
    \/ a.y = b.y /\ a.m > b.m
    \/ a.y = b.y /\ a.m = b.m /\ a.d >= b.d

\* dt - timedelta(days=1)
minus_one_day(dt) ==
    IF dt.d > 1 THEN date(dt.y, dt.m, dt.d - 1)
    ELSE IF dt.m > 1 THEN date(dt.y, dt.m - 1, days_in_month(dt.y, dt.m - 1))
    ELSE date(dt.y - 1, 12, 31)

\* dt.replace(day=1)
replace_day_1(dt) == date(dt.y, dt.m, 1)

\* strftime("%Y-%m") and strftime("%Y-%m-%d"): the label keeps these fields
strftime_month(dt) == <<dt.y, dt.m>>
strftime_day(dt) == <<dt.y, dt.m, dt.d>>

\* the dates drawn for today and for start_date / end_date
Todays == {date(2024, 1, 1), date(2024, 2, 29), date(2024, 3, 1), date(2024, 3, 31)}
RangeDates ==
    {date(2023, 11, 30), date(2023, 12, 31), date(2024, 1, 1), date(2024, 1, 31),
     date(2024, 2, 1), date(2024, 2, 29), date(2024, 3, 1), date(2024, 3, 2)}

\* ------------------------------------------------ the date generators
\* _generate_month_strings: the loop body, n iterations from current
\* faulty variant: the loop does not move to the previous month
RECURSIVE month_loop_stuck(_, _)
month_loop_stuck(current, n) ==
    IF n <= 0 THEN <<>>
    ELSE <<strftime_month(current)>> \o month_loop_stuck(current, n - 1)

RECURSIVE month_loop(_, _)
month_loop(current, n) ==
    IF n <= 0 THEN <<>>
    ELSE <<strftime_month(current)>>
         \o month_loop(replace_day_1(minus_one_day(current)), n - 1)

generate_month_strings(end_date, num_months) ==
    month_loop(replace_day_1(end_date), num_months)

\* _generate_day_strings
RECURSIVE generate_day_strings(_, _)
generate_day_strings(current, num_days) ==
    IF num_days <= 0 THEN <<>>
    ELSE <<strftime_day(current)>> \o generate_day_strings(minus_one_day(current), num_days - 1)

\* _generate_date_range: `while current >= start`, monthly and daily
RECURSIVE monthly_range(_, _)
monthly_range(current, start) ==
    IF ~date_ge(current, start) THEN <<>>
    ELSE <<strftime_month(current)>>
         \o monthly_range(replace_day_1(minus_one_day(current)), start)

RECURSIVE daily_range(_, _)
daily_range(current, start_date) ==
    IF ~date_ge(current, start_date) THEN <<>>
    ELSE <<strftime_day(current)>> \o daily_range(minus_one_day(current), start_date)

generate_date_range(start_date, end_date, granularity) ==
    IF granularity = "monthly"
    THEN monthly_range(replace_day_1(end_date), replace_day_1(start_date))
    ELSE daily_range(end_date, start_date)

\* ------------------------------------------------ create_download_tasks
\* faulty variant: the first day of the current month counted as a past month
end_in_current_month_strict(end_date, today) ==
    date_ge(end_date, replace_day_1(today)) /\ end_date # replace_day_1(today)

\* `if end_date >= today.replace(day=1)`
end_in_current_month(end_date, today) == date_ge(end_date, replace_day_1(today))

\* faulty variant: the day count starts from today
ref_date_today(today) == today

\* `ref_date = today - timedelta(days=1)`
ref_date(today) == minus_one_day(today)

\* `last_complete_month = today.replace(day=1) - timedelta(days=1)`
last_complete_month(today) == minus_one_day(replace_day_1(today))

\* _construct_url and _construct_checksum_url, for a fixed symbol, timeframe
\* and market type: the parts of the URL that vary
construct_url(date_str, granularity) == <<granularity, "klines", date_str>>
construct_checksum_url(url) == <<url, "CHECKSUM">>

\* the task list built from the date strings
make_tasks(date_strings, granularity) ==
    [k \in 1..Len(date_strings) |->
        [url |-> construct_url(date_strings[k], granularity),
         checksum_url |-> construct_checksum_url(construct_url(date_strings[k], granularity)),
         output_path |-> <<"raw", granularity, date_strings[k]>>,
         date_str |-> date_strings[k]]]

Planned(granularity, date_strings) ==
    [state |-> "returned", granularity |-> granularity,
     tasks |-> make_tasks(date_strings, granularity)]
PlanRaised == [state |-> "raised", granularity |-> "", tasks |-> <<>>]
NotPlanned == [state |-> "call", granularity |-> "", tasks |-> <<>>]

create_download_tasks(a) ==
    IF ~is_none(a.start_date) /\ ~is_none(a.end_date)
    THEN IF end_in_current_month(value(a.end_date), a.today)
         THEN Planned("daily",
                      generate_date_range(value(a.start_date), value(a.end_date), "daily"))
         ELSE Planned("monthly",
                      generate_date_range(value(a.start_date), value(a.end_date), "monthly"))
    ELSE IF ~is_none(a.days)
    THEN Planned("daily", generate_day_strings(ref_date(a.today), value(a.days)))
    ELSE IF ~is_none(a.months)
    THEN Planned("monthly",
                 generate_month_strings(last_complete_month(a.today), value(a.months)))
    ELSE PlanRaised

\* ------------------------------------------------------------ SpecPlan
PlanInit ==
    /\ plan_args \in [today : Todays,
                      start_date : Optional(RangeDates), end_date : Optional(RangeDates),
                      months : Optional(0..MaxCount), days : Optional(0..MaxCount)]
    /\ plan = NotPlanned
    /\ PoolIdle /\ ProcIdle /\ ValIdle /\ RunIdle

\* one call of create_download_tasks
PlanCall ==
    /\ plan.state = "call"
    /\ plan' = create_download_tasks(plan_args)
    /\ UNCHANGED <<plan_args, poolVars, procVars, valVars, runVars>>

PlanNext == PlanCall

SpecPlan == PlanInit /\ [][PlanNext]_vars

\* ------------------------------------------------------ planner claims
\* a calendar independent of the date generators: days and months counted
\* from January 2023
RECURSIVE DaysBefore(_, _)
DaysBefore(y, m) ==
    IF y <= 2023 /\ m <= 1 THEN 0
    ELSE IF m > 1 THEN DaysBefore(y, m - 1) + days_in_month(y, m - 1)
    ELSE DaysBefore(y - 1, 12) + days_in_month(y - 1, 12)
DayNumber(dt) == DaysBefore(dt.y, dt.m) + dt.d
MonthNumber(y, m) == 12 * y + m
IsDayLabel(l) ==
    /\ Len(l) = 3
    /\ l[2] \in 1..12
    /\ l[3] \in 1..days_in_month(l[1], l[2])
IsMonthLabel(l) == Len(l) = 2 /\ l[2] \in 1..12
Labels == [k \in 1..Len(plan.tasks) |-> plan.tasks[k].date_str]
AbsoluteRange == ~is_none(plan_args.start_date) /\ ~is_none(plan_args.end_date)
StartDate == value(plan_args.start_date)
EndDate == value(plan_args.end_date)
Today == plan_args.today

\* the labels are the days from day number `newest` back, n of them
DailyFrom(newest, n) ==
    /\ Len(Labels) = n
    /\ \A k \in 1..n :
          /\ IsDayLabel(Labels[k])
          /\ DayNumber(date(Labels[k][1], Labels[k][2], Labels[k][3])) = newest - (k - 1)
\* the labels are the months from month number `newest` back, n of them
MonthlyFrom(newest, n) ==
    /\ Len(Labels) = n
    /\ \A k \in 1..n :
          /\ IsMonthLabel(Labels[k])
          /\ MonthNumber(Labels[k][1], Labels[k][2]) = newest - (k - 1)

\* C14: create_download_tasks raises and produces no descriptors when neither
\* an absolute range nor a relative count is supplied, and also when an
\* absolute range has start later than end.
C14_InvalidDateSpec ==
    plan.state # "call" =>
        /\ (~AbsoluteRange /\ is_none(plan_args.days) /\ is_none(plan_args.months))
              => (plan.state = "raised" /\ plan.tasks = <<>>)
        /\ (AbsoluteRange /\ ~date_ge(EndDate, StartDate))
              => (plan.state = "raised" /\ plan.tasks = <<>>)

\* C15: for an absolute range with start <= end the granularity is daily when
\* end is in the current calendar month and monthly when end is before it,
\* and the labels are, newest first, every day from end back to start, or
\* every month from end's month back to start's month, each once.
C15_AbsoluteRange ==
    (plan.state # "call" /\ AbsoluteRange /\ date_ge(EndDate, StartDate)) =>
        /\ plan.state = "returned"
        /\ (EndDate.y = Today.y /\ EndDate.m = Today.m) =>
              /\ plan.granularity = "daily"
              /\ DailyFrom(DayNumber(EndDate), DayNumber(EndDate) - DayNumber(StartDate) + 1)
        /\ MonthNumber(EndDate.y, EndDate.m) < MonthNumber(Today.y, Today.m) =>
              /\ plan.granularity = "monthly"
              /\ MonthlyFrom(MonthNumber(EndDate.y, EndDate.m),
                             MonthNumber(EndDate.y, EndDate.m)
                               - MonthNumber(StartDate.y, StartDate.m) + 1)

\* C15 witness: end is the first day of the current month, start the first of
\* February 2024: thirty daily labels across the leap day.
C15_Witness ==
    /\ plan.state = "returned"
    /\ AbsoluteRange
    /\ Today = date(2024, 3, 31) /\ EndDate = date(2024, 3, 1) /\ StartDate = date(2024, 2, 1)
    /\ Len(plan.tasks) = 30
    /\ plan.granularity = "daily"

\* C16: a relative date spec gives exactly N descriptors, newest first and
\* consecutive: days=N the N days ending yesterday, months=N the N calendar
\* months ending with the last completed one.
C16_RelativeCount ==
    (plan.state # "call" /\ ~AbsoluteRange) =>
        /\ ~is_none(plan_args.days) =>
              /\ plan.state = "returned"
              /\ plan.granularity = "daily"
              /\ DailyFrom(DayNumber(Today) - 1, value(plan_args.days))
        /\ (is_none(plan_args.days) /\ ~is_none(plan_args.months)) =>
              /\ plan.state = "returned"
              /\ plan.granularity = "monthly"
              /\ MonthlyFrom(MonthNumber(Today.y, Today.m) - 1, value(plan_args.months))

\* C16 witness: three days back from the first of March 2024, over the leap day.
C16_Witness ==
    /\ plan.state = "returned"
    /\ ~AbsoluteRange
    /\ Today = date(2024, 3, 1)
    /\ plan_args.days = <<3>>
    /\ Labels = << <<2024, 2, 29>>, <<2024, 2, 28>>, <<2024, 2, 27>> >>

\* months=3 on New Year's Day: the labels cross the year boundary
C16_MonthsWitness ==
    /\ plan.state = "returned"
    /\ Today = date(2024, 1, 1)
    /\ is_none(plan_args.days) /\ plan_args.months = <<3>>
    /\ Labels = << <<2023, 12>>, <<2023, 11>>, <<2023, 10>> >>

\* ==================================================== part 3: validation
\* Timestamps and intervals are counted in half minutes, so that one and a
\* half times the one-minute interval is a value a table can hold.
\* ------------------------------------------------------------------ bounds
MaxBars == 4                \* the most rows of an enumerated table
MaxTime == 12               \* the latest timestamp of an enumerated table
LongBars == 100             \* the rows of the long tables

\* the rows of TIMEFRAME_MINUTES that are drawn
TIMEFRAME_MINUTES == [tf \in {"1m", "3m"} |-> IF tf = "1m" THEN 1 ELSE 3]
Timeframes == DOMAIN TIMEFRAME_MINUTES

\* timedelta(minutes=minutes), in half minutes
get_expected_interval(tf) == 2 * TIMEFRAME_MINUTES[tf]

\* ---------------------------------------------------------- the tables
\* a DataFrame: its column labels, its number of rows, and the timestamp
\* column when it has one
DataFrame(columns, ts) == [columns |-> columns, rows |-> Len(ts), timestamp |-> ts]
NoTimestamps(columns, n) == [columns |-> columns, rows |-> n, timestamp |-> <<>>]

Reverse(s) == [k \in 1..Len(s) |-> s[Len(s) + 1 - k]]
Rotate(s) == IF s = <<>> THEN s ELSE Tail(s) \o <<Head(s)>>

\* the timestamp columns drawn: every nondecreasing sequence, as it is,
\* newest first, and with its first row moved to the end
Ascending(n) ==
    {ts \in [1..n -> 0..MaxTime] : \A k \in 1..(n - 1) : ts[k] <= ts[k + 1]}
TimestampColumns ==
    UNION {{ts, Reverse(ts), Rotate(ts)} : ts \in UNION {Ascending(n) : n \in 0..MaxBars}}

\* LongBars rows: `slow` steps of one and a half minutes, then steps of one
LongColumn(slow) ==
    [k \in 1..LongBars |->
        IF k <= slow + 1 THEN 3 * (k - 1) ELSE 3 * slow + 2 * (k - 1 - slow)]
\* LongBars rows in steps of one minute, with one bar left out in the middle
LongSkipColumn ==
    [k \in 1..LongBars |-> IF k <= LongBars \div 2 THEN 2 * (k - 1) ELSE 2 * k]
LongColumns == {LongColumn(slow) : slow \in {0, 2, 4}} \cup {LongSkipColumn}

Tables ==
    {DataFrame(c, ts) : c \in {{"timestamp"}, {"timestamp", "close"}}, ts \in TimestampColumns}
    \cup {DataFrame({"timestamp", "close"}, ts) : ts \in LongColumns}
    \cup {NoTimestamps(c, n) : c \in {{}, {"close"}}, n \in 0..MaxBars}

\* faulty variant: a table with rows and no columns is not empty
empty_rows_only(d) == d.rows = 0

\* DataFrame.empty: some axis has length zero
empty(d) == d.rows = 0 \/ d.columns = {}

\* df.sort_values("timestamp")["timestamp"]
sorted_timestamps(d) == SortSeq(d.timestamp, LAMBDA a, b : a < b)

min_timestamp(d) == CHOOSE t \in {d.timestamp[k] : k \in 1..d.rows} :
                        \A k \in 1..d.rows : t <= d.timestamp[k]
max_timestamp(d) == CHOOSE t \in {d.timestamp[k] : k \in 1..d.rows} :
                        \A k \in 1..d.rows : t >= d.timestamp[k]

\* --------------------------------------------------------- detect_gaps
Gap(start, end, missing_bars) ==
    [start |-> start, end |-> end, missing_bars |-> missing_bars]

\* faulty variant: a delta of exactly the tolerance is flagged
exceeds_tolerance_inclusive(diff, interval) == 2 * diff >= 3 * interval

\* `diff > tolerance_td`, tolerance = expected_interval * 1.5
exceeds_tolerance(diff, interval) == 2 * diff > 3 * interval

\* faulty variant: the bar at the end of the gap counted as missing
missing_plus_one(diff, interval) == diff \div interval

\* `int(diff / expected_td) - 1`
missing(diff, interval) == (diff \div interval) - 1

\* the loop over diffs, from position i
RECURSIVE gap_loop(_, _, _)
gap_loop(ts, i, interval) ==
    IF i > Len(ts) THEN <<>>
    ELSE (IF exceeds_tolerance(ts[i] - ts[i - 1], interval)
          THEN <<Gap(ts[i - 1], ts[i], missing(ts[i] - ts[i - 1], interval))>>
          ELSE <<>>)
         \o gap_loop(ts, i + 1, interval)

GapsReturned(list) == [state |-> "returned", list |-> list]
GapsKeyError == [state |-> "KeyError", list |-> <<>>]
GapsNotCalled == [state |-> "call", list |-> <<>>]

detect_gaps(d, tf) ==
    IF empty(d) \/ d.rows < 2 THEN GapsReturned(<<>>)
    ELSE IF "timestamp" \notin d.columns THEN GapsKeyError
    ELSE GapsReturned(gap_loop(sorted_timestamps(d), 2, get_expected_interval(tf)))

\* -------------------------------------------------- validate_dataframe
\* calculate_expected_bars
calculate_expected_bars(start_time, end_time, tf) ==
    ((end_time - start_time) \div get_expected_interval(tf)) + 1

\* faulty variant: every expected bar is required
meets_threshold_all(total_bars, expected_bars) == total_bars >= expected_bars

\* `total_bars >= expected_bars * 0.99`
meets_threshold(total_bars, expected_bars) == 100 * total_bars >= 99 * expected_bars

\* `"timestamp" not in df.columns`
missing_timestamp(d) == "timestamp" \notin d.columns

ValidationResult(is_valid, total_bars, expected_bars, gs, warnings) ==
    [state |-> "returned", is_valid |-> is_valid, total_bars |-> total_bars,
     expected_bars |-> expected_bars, gaps |-> gs, warnings |-> warnings]
ValidationError ==
    [state |-> "ValidationError", is_valid |-> FALSE, total_bars |-> 0,
     expected_bars |-> 0, gaps |-> <<>>, warnings |-> <<>>]
NotValidated ==
    [state |-> "call", is_valid |-> FALSE, total_bars |-> 0,
     expected_bars |-> 0, gaps |-> <<>>, warnings |-> <<>>]

\* the result for an empty table
EmptyResult == ValidationResult(TRUE, 0, 0, <<>>, << <<"DataFrame is empty">> >>)

\* validate_dataframe after its two entry checks
validate_rows(d, tf, cg) ==
    LET total_bars == d.rows
        expected_bars == calculate_expected_bars(min_timestamp(d), max_timestamp(d), tf)
        gs == IF cg THEN detect_gaps(d, tf).list ELSE <<>>
        w1 == IF gs # <<>> THEN << <<"Found gap(s) in data", Len(gs)>> >> ELSE <<>>
        w2 == IF total_bars < expected_bars
              THEN << <<"Missing bars", expected_bars - total_bars>> >> ELSE <<>>
    IN ValidationResult(gs = <<>> /\ meets_threshold(total_bars, expected_bars),
                        total_bars, expected_bars, gs, w1 \o w2)

\* faulty variant: the column check comes before the emptiness check
validate_dataframe_columns_first(d, tf, cg) ==
    IF missing_timestamp(d) THEN ValidationError
    ELSE IF empty(d) THEN EmptyResult
    ELSE validate_rows(d, tf, cg)

validate_dataframe(d, tf, cg) ==
    IF empty(d) THEN EmptyResult
    ELSE IF missing_timestamp(d) THEN ValidationError
    ELSE validate_rows(d, tf, cg)

\* -------------------------------------------------------------- SpecVal
ValInit ==
    /\ df \in Tables
    /\ timeframe \in Timeframes
    /\ check_gaps \in BOOLEAN
    /\ validation = NotValidated
    /\ gaps = GapsNotCalled
    /\ PoolIdle /\ PlanIdle /\ ProcIdle /\ RunIdle

\* one call of validate_dataframe
Validate ==
    /\ validation.state = "call"
    /\ validation' = validate_dataframe(df, timeframe, check_gaps)
    /\ UNCHANGED <<df, timeframe, check_gaps, gaps, poolVars, planVars, procVars, runVars>>

\* one call of detect_gaps
DetectGaps ==
    /\ gaps.state = "call"
    /\ gaps' = detect_gaps(df, timeframe)
    /\ UNCHANGED <<df, timeframe, check_gaps, validation, poolVars, planVars, procVars, runVars>>

ValNext ==
    \/ Validate
    \/ DetectGaps

SpecVal == ValInit /\ [][ValNext]_vars

\* --------------------------------------------------- validation claims
Cadence == get_expected_interval(timeframe)
HasTimestamp == "timestamp" \in df.columns
Validated == validation.state # "call"
\* the timestamps in ascending order, and the delta after position i
Ordered == SortSeq(df.timestamp, LAMBDA a, b : a < b)
Delta(i) == Ordered[i + 1] - Ordered[i]
Flagged == {i \in 1..(df.rows - 1) : 2 * Delta(i) > 3 * Cadence}

\* C17: for a non-empty table, validate_dataframe reports expected_bars =
\* floor((max - min) / cadence) + 1, and is_valid exactly when no gap was
\* flagged and total_bars is at least 99% of expected_bars; a flagged gap
\* makes the result invalid whatever the row count.
C17_ExpectedBarsAndValidity ==
    (validation.state = "returned" /\ ~(df.rows = 0 \/ df.columns = {})) =>
        /\ validation.total_bars = df.rows
        /\ validation.expected_bars
              = ((Ordered[df.rows] - Ordered[1]) \div Cadence) + 1
        /\ validation.is_valid
              <=> (/\ validation.gaps = <<>>
                   /\ 100 * validation.total_bars >= 99 * validation.expected_bars)
        /\ validation.gaps # <<>> => ~validation.is_valid
        /\ check_gaps => (validation.gaps # <<>> <=> Flagged # {})

\* C17 witness: a long table without gaps that has fewer rows than expected
\* and still at least 99% of them.
C17_Witness ==
    /\ validation.state = "returned"
    /\ check_gaps
    /\ validation.gaps = <<>>
    /\ validation.total_bars < validation.expected_bars
    /\ validation.is_valid

\* C18: detect_gaps flags exactly the consecutive deltas greater than 1.5 x
\* cadence, each as a Gap with the two neighbouring timestamps and
\* missing_bars = floor(delta / cadence) - 1; evenly spaced timestamps give
\* no gap, one skip of k x cadence (k >= 2) gives one gap with k - 1.
C18_DetectGaps ==
    (gaps.state # "call" /\ HasTimestamp) =>
        /\ gaps.state = "returned"
        /\ Len(gaps.list) = Cardinality(Flagged)
        /\ \A i \in Flagged :
              \E g \in 1..Len(gaps.list) :
                 gaps.list[g] = [start |-> Ordered[i], end |-> Ordered[i + 1],
                                 missing_bars |-> (Delta(i) \div Cadence) - 1]
        /\ \A g \in 1..Len(gaps.list) :
              /\ 2 * (gaps.list[g].end - gaps.list[g].start) > 3 * Cadence
              /\ g > 1 => gaps.list[g - 1].end <= gaps.list[g].start
        /\ (\A i \in 1..(df.rows - 1) : Delta(i) = Cadence) => gaps.list = <<>>
        /\ \A j \in 1..(df.rows - 1) : \A k \in 2..MaxTime :
              (/\ Delta(j) = k * Cadence
               /\ \A i \in 1..(df.rows - 1) : i # j => Delta(i) = Cadence)
              => (Len(gaps.list) = 1 /\ gaps.list[1].missing_bars = k - 1)

\* C18 witness: rows out of order, one-minute cadence, one skip of three
\* minutes between evenly spaced rows: one gap with two missing bars.
C18_Witness ==
    /\ gaps.state = "returned"
    /\ timeframe = "1m"
    /\ df.timestamp = <<2, 8, 10, 0>>
    /\ gaps.list = <<[start |-> 2, end |-> 8, missing_bars |-> 2]>>

\* C19 as stated: validate_dataframe raises ValidationError for every table
\* that lacks a timestamp column and for no table that has one.
C19_RaisesIffNoTimestamp ==
    Validated => (validation.state = "ValidationError" <=> ~HasTimestamp)

\* C19 amended: validate_dataframe raises ValidationError for every table
\* that is not empty and lacks a timestamp column, and for no other table;
\* gaps and under-coverage are reported in the returned result.
C19_RaisesIffNonEmptyNoTimestamp ==
    Validated =>
        /\ validation.state = "ValidationError"
              <=> (~HasTimestamp /\ df.rows > 0 /\ df.columns # {})
        /\ HasTimestamp => validation.state = "returned"

\* C19 witness: a table with rows, a close column and no timestamp column.
C19_Witness ==
    /\ validation.state = "ValidationError"
    /\ df.columns = {"close"}
    /\ df.rows > 0

\* C20: validate_dataframe on an empty table raises nothing and returns
\* is_valid = true, total_bars = 0, expected_bars = 0, no gaps and a warning
\* that the table is empty.
C20_EmptyTable ==
    (Validated /\ (df.rows = 0 \/ df.columns = {})) =>
        /\ validation.state = "returned"
        /\ validation.is_valid
        /\ validation.total_bars = 0
        /\ validation.expected_bars = 0
        /\ validation.gaps = <<>>
        /\ validation.warnings = << <<"DataFrame is empty">> >>

\* C20 witness: a table without columns that has rows in its index.
C20_Witness ==
    /\ validation.state = "returned"
    /\ df.columns = {}
    /\ df.rows > 0

\* ================================================== part 4: the processor
\* ------------------------------------------------------------------ bounds
MaxArchives == 2            \* the most archives in zip_paths
MaxRecords == 2             \* the most records of a CSV payload

KLINE_COLUMNS ==
    <<"open_time", "open", "high", "low", "close", "volume", "close_time",
      "quote_volume", "count", "taker_buy_volume", "taker_buy_quote_volume", "ignore">>
OUTPUT_COLUMNS == <<"timestamp", "open", "high", "low", "close", "volume">>

\* ---------------------------------------------------------- the archives
\* A CSV record: its first field as text, the five price and volume fields
\* as one value, the six remaining fields as one value. The text "open_time"
\* is the first field of a header record and, in a later record, a first
\* field that is not a number; "-1" is a number that is not all digits.
Record(first, ohlcv) == [first |-> first, ohlcv |-> ohlcv, rest |-> "rest"]
FirstFields == {"1", "2", "-1", "open_time"}
Records == {Record(f, v) : f \in FirstFields, v \in {"a", "b"}}

\* an archive: not a ZIP file, a ZIP without the expected CSV member, or a
\* ZIP whose CSV member holds these records
BadZipFile == [kind |-> "BadZipFile", records |-> <<>>]
NoPayload == [kind |-> "KeyError", records |-> <<>>]
Csv(records) == [kind |-> "csv", records |-> records]
Archives ==
    {BadZipFile, NoPayload}
    \cup {Csv(r) : r \in UNION {[1..n -> Records] : n \in 0..MaxRecords}}

\* str.isdigit on the first fields drawn: every character a digit
isdigit(s) == s \in {"1", "2"}
\* the cells read_csv and to_datetime take as numbers, and their values
is_number(s) == s \in {"1", "2", "-1"}
to_int(s) == CASE s = "1" -> 1 [] s = "2" -> 2 [] OTHER -> -1

\* ----------------------------------------------------- process_zip_file
\* the exception process_zip_file raises, NoExc when it returns
decode_error(zip) ==
    IF zip.kind # "csv" THEN zip.kind
    ELSE IF zip.records = <<>> THEN "EmptyDataError"
    ELSE NoExc

\* `has_header = not first_line.split(",")[0].isdigit()`
has_header(zip) == ~isdigit(zip.records[1].first)

\* the rows pd.read_csv returns, under the KLINE_COLUMNS names
process_zip_file(zip) ==
    [columns |-> KLINE_COLUMNS,
     rows |-> IF has_header(zip) THEN Tail(zip.records) ELSE zip.records]

Decoded(table) == [state |-> "returned", columns |-> table.columns, rows |-> table.rows]
DecodeRaised(exc) == [state |-> exc, columns |-> <<>>, rows |-> <<>>]
NotDecoded == [state |-> "call", columns |-> <<>>, rows |-> <<>>]

\* ---------------------------------------------------- process_zip_files
\* the try/except loop: the tables of the archives that decoded, in order
RECURSIVE decode_loop(_)
decode_loop(paths) ==
    IF paths = <<>> THEN <<>>
    ELSE (IF decode_error(Head(paths)) = NoExc
          THEN <<process_zip_file(Head(paths))>> ELSE <<>>)
         \o decode_loop(Tail(paths))

\* pd.concat(dfs, ignore_index=True)
RECURSIVE concat(_)
concat(dfs) == IF dfs = <<>> THEN <<>> ELSE Head(dfs).rows \o concat(Tail(dfs))

\* pd.to_datetime(open_time, unit="ms", utc=True) of one cell
to_datetime(cell) == [epoch_ms |-> to_int(cell), tz |-> "UTC"]
\* to_datetime raises ValueError when a cell is not a number
convertible(rows) == \A k \in 1..Len(rows) : is_number(rows[k].first)

with_timestamp(rows) ==
    [k \in 1..Len(rows) |->
        [timestamp |-> to_datetime(rows[k].first), open_time |-> rows[k].first,
         ohlcv |-> rows[k].ohlcv, rest |-> rows[k].rest]]

\* sort_values("timestamp") uses quicksort, which is not stable: every
\* arrangement of the rows with nondecreasing timestamps is a possible result
SortOrders(rows) ==
    {p \in [1..Len(rows) -> 1..Len(rows)] :
        /\ \A i, j \in 1..Len(rows) : i # j => p[i] # p[j]
        /\ \A i \in 1..(Len(rows) - 1) :
              rows[p[i]].timestamp.epoch_ms <= rows[p[i + 1]].timestamp.epoch_ms}
sort_values(rows, p) == [k \in 1..Len(rows) |-> rows[p[k]]]

\* faulty variant: repeated timestamps are kept
drop_duplicates_none(rows) == rows

\* drop_duplicates(subset=["timestamp"]): the first row of each timestamp
drop_duplicates(rows) ==
    LET keep(k) == \A j \in 1..(k - 1) : rows[j].timestamp # rows[k].timestamp
        idx == SelectSeq([k \in 1..Len(rows) |-> k], keep)
    IN [k \in 1..Len(idx) |-> rows[idx[k]]]

\* combined[OUTPUT_COLUMNS]
select_output(rows) ==
    [columns |-> OUTPUT_COLUMNS,
     rows |-> [k \in 1..Len(rows) |->
                 [timestamp |-> rows[k].timestamp, ohlcv |-> rows[k].ohlcv]]]

ProcReturned(table) == [state |-> "returned", columns |-> table.columns, rows |-> table.rows]
ProcRaised(exc) == [state |-> exc, columns |-> <<>>, rows |-> <<>>]
NotProcessed == [state |-> "call", columns |-> <<>>, rows |-> <<>>]

\* the results process_zip_files can return or raise
process_zip_files(paths) ==
    LET dfs == decode_loop(paths)
        combined == concat(dfs)
    IN IF dfs = <<>> THEN {ProcReturned([columns |-> OUTPUT_COLUMNS, rows |-> <<>>])}
       ELSE IF ~convertible(combined) THEN {ProcRaised("ValueError")}
       ELSE {ProcReturned(select_output(drop_duplicates(
                 sort_values(with_timestamp(combined), p))))
             : p \in SortOrders(with_timestamp(combined))}

\* ------------------------------------------------------------- SpecProc
ProcInit ==
    /\ zip_paths \in UNION {[1..n -> Archives] : n \in 0..MaxArchives}
    /\ decoded = [k \in 1..Len(zip_paths) |-> NotDecoded]
    /\ processed = NotProcessed
    /\ PoolIdle /\ PlanIdle /\ ValIdle /\ RunIdle

\* one call of process_zip_files
ProcessZipFiles ==
    /\ processed.state = "call"
    /\ processed' \in process_zip_files(zip_paths)
    /\ UNCHANGED <<zip_paths, decoded, poolVars, planVars, valVars, runVars>>

\* one call of process_zip_file, on archive k of the list
ProcessZipFile(k) ==
    /\ decoded[k].state = "call"
    /\ decoded' = [decoded EXCEPT ![k] =
                      IF decode_error(zip_paths[k]) = NoExc
                      THEN Decoded(process_zip_file(zip_paths[k]))
                      ELSE DecodeRaised(decode_error(zip_paths[k]))]
    /\ UNCHANGED <<zip_paths, processed, poolVars, planVars, valVars, runVars>>

ProcNext ==
    \/ ProcessZipFiles
    \/ \E k \in 1..Len(zip_paths) : ProcessZipFile(k)

SpecProc == ProcInit /\ [][ProcNext]_vars

\* ---------------------------------------------------- processor claims
\* the data records of an archive that decodes: all of them, or all but the
\* first when the first field of the first is not a number
DataRecords(zip) ==
    IF zip.kind # "csv" \/ zip.records = <<>> THEN {}
    ELSE {zip.records[k] :
            k \in (IF zip.records[1].first \in {"1", "2"} THEN 1 ELSE 2)..Len(zip.records)}
AllDataRecords == UNION {DataRecords(zip_paths[k]) : k \in 1..Len(zip_paths)}
Decodes(zip) == zip.kind = "csv" /\ zip.records # <<>>
Epoch(k) == processed.rows[k].timestamp.epoch_ms

\* C11: the table returned by process_zip_files has strictly increasing
\* timestamps, no timestamp twice, exactly one row for each distinct
\* timestamp of the decoded inputs, and exactly the columns timestamp,
\* open, high, low, close, volume.
C11_SortedUnique ==
    processed.state = "returned" =>
        /\ processed.columns = <<"timestamp", "open", "high", "low", "close", "volume">>
        /\ \A k \in 1..(Len(processed.rows) - 1) : Epoch(k) < Epoch(k + 1)
        /\ {Epoch(k) : k \in 1..Len(processed.rows)}
              = {to_int(r.first) : r \in AllDataRecords}
        /\ \A k \in 1..Len(processed.rows) :
              /\ DOMAIN processed.rows[k] = {"timestamp", "ohlcv"}
              /\ processed.rows[k].timestamp.tz = "UTC"
              /\ \E r \in AllDataRecords :
                    to_int(r.first) = Epoch(k) /\ r.ohlcv = processed.rows[k].ohlcv

\* C11 witness: an archive with rows newest first and an archive with a
\* header whose one row repeats a timestamp of the first with other values.
C11_Witness ==
    /\ processed.state = "returned"
    /\ zip_paths = <<Csv(<<Record("2", "a"), Record("1", "a")>>),
                     Csv(<<Record("open_time", "a"), Record("1", "b")>>)>>
    /\ Len(processed.rows) = 2
    /\ processed.rows[1].ohlcv = "b"

\* C12: an archive that cannot be opened, lacks the expected payload or
\* fails to parse is skipped without aborting the batch: process_zip_files
\* never raises, returns the merge of the archives that decoded, and returns
\* an empty table with the output columns when none decoded.
C12_BadArchiveSkipped ==
    processed.state # "call" =>
        /\ processed.state = "returned"
        /\ processed.columns = OUTPUT_COLUMNS
        /\ (\A k \in 1..Len(zip_paths) : ~Decodes(zip_paths[k])) => processed.rows = <<>>

\* ========================================== part 5: the single-symbol run
\* _download_single from the return of download_files_async onwards, and a
\* second run after the first is over.
\* ------------------------------------------------------------------ bounds
MaxResults == 2             \* the most fetch outcomes of a run

\* the outcomes a result list is drawn from: downloaded, reused, failed
Outcomes ==
    {DownloadResult("path", TRUE, None, FALSE),
     DownloadResult("path", TRUE, None, TRUE),
     DownloadResult("path", FALSE, ErrNotFound, FALSE)}

\* the archive of task k of run n, in the subdirectory of its granularity
Archive(granularity, n, k) == [dir |-> granularity, name |-> <<n, k>>]

\* the archives at the destinations of the successful outcomes
downloaded(a) ==
    {Archive(a.granularity, a.n, k) : k \in {j \in 1..Len(a.results) : a.results[j].success}}

\* `failed = [r for r in results if not r.success]`
failed_results(rs) == SelectSeq(rs, LAMBDA r : ~r.success)

\* faulty variant: one failure is enough
all_failed_any(failed, rs) == failed # <<>>

\* `if failed and len(failed) == len(results)`
all_failed(failed, rs) == failed # <<>> /\ Len(failed) = Len(rs)

\* faulty variant: the daily subdirectory is not searched
find_zip_files_monthly(raw) == {z \in raw : z.dir = "monthly"}

\* find_zip_files: the archives of the monthly and of the daily subdirectory
find_zip_files(raw) ==
    {z \in raw : z.dir = "monthly"} \cup {z \in raw : z.dir = "daily"}

\* what process_zip_files can do with archives: decode no row, decode rows
\* (which process_symbol saves), or raise ValueError
ProcessOutcomes == {"empty", "saved", "ValueError"}

NoTable == [sources |-> {}, rows |-> "none"]
Table(sources, rows) == [sources |-> sources, rows |-> rows]

\* the arguments and outcomes of a run
RunArgs(rs, validate, output_dir, keep_raw, granularity, n, prev) ==
    [results |-> rs, validate |-> validate, output_dir |-> output_dir,
     keep_raw |-> keep_raw, granularity |-> granularity, n |-> n, prev |-> prev]
ResultLists == UNION {[1..n -> Outcomes] : n \in 0..MaxResults}

\* -------------------------------------------------------------- SpecRun
\* the first run, at the return of download_files_async: output_dir is given
\* or None, a run without output_dir works in a temporary directory of its
\* own, and the successful outcomes have their archives on disk
RunInit ==
    /\ \E rs \in ResultLists, v \in BOOLEAN, o \in {"given", None}, kr \in BOOLEAN,
          g \in {"monthly", "daily"} :
          run_args = RunArgs(rs, v, o, kr, g, 1, [archives |-> {}, keep_raw |-> TRUE])
    /\ run_pc = "results"
    /\ run_log = <<>>
    /\ disk = [raw |-> downloaded(run_args),
               tmp |-> IF run_args.output_dir = None THEN {1} ELSE {}]
    /\ run_table = NoTable
    /\ PoolIdle /\ PlanIdle /\ ProcIdle /\ ValIdle

\* the check of the result list: raise, or warn and go on
RunCheck ==
    /\ run_pc = "results"
    /\ LET failed == failed_results(run_args.results)
       IN IF all_failed(failed, run_args.results)
          THEN /\ run_pc' = "NoDataAvailableError"
               /\ UNCHANGED run_log
          ELSE /\ run_pc' = "process"
               /\ run_log' = IF failed # <<>> THEN run_log \o <<"warning">> ELSE run_log
    /\ UNCHANGED <<run_args, disk, run_table, poolVars, planVars, procVars, valVars>>

\* process_symbol: find the archives, decode and merge them, save the table
RunProcess ==
    /\ run_pc = "process"
    /\ LET zip_files == find_zip_files(disk.raw)
       IN \E out \in (IF zip_files = {} THEN {"empty"} ELSE ProcessOutcomes) :
             /\ run_log' = run_log \o <<"process_symbol">>
                             \o (IF out = "saved" THEN <<"save_dataframe">> ELSE <<>>)
             /\ run_pc' = IF out = "ValueError" THEN "ValueError" ELSE "validate"
             /\ run_table' = CASE out = "ValueError" -> run_table
                           [] out = "saved" -> Table(zip_files, "rows")
                           [] OTHER -> Table(zip_files, "empty")
    /\ UNCHANGED <<run_args, disk, poolVars, planVars, procVars, valVars>>

\* `if validate and not df.empty`, then the clean-up of the raw directory
\* and of the temporary directory, and the return
RunValidate ==
    /\ run_pc = "validate"
    /\ run_log' = IF run_args.validate /\ run_table.rows = "rows"
                  THEN run_log \o <<"validate_dataframe">> ELSE run_log
    /\ disk' = IF run_args.output_dir = None
               THEN [raw |-> {}, tmp |-> disk.tmp \ {run_args.n}]
               ELSE IF ~run_args.keep_raw THEN [disk EXCEPT !.raw = {}]
               ELSE disk
    /\ run_pc' = "done"
    /\ UNCHANGED <<run_args, run_table, poolVars, planVars, procVars, valVars>>

\* the first run is over, by a return or by an exception; download() is
\* called again for the same symbol, timeframe and output_dir with another
\* date range, and its download_files_async has returned
RunAgain ==
    /\ run_args.n = 1
    /\ run_pc \in {"done", "NoDataAvailableError", "ValueError"}
    /\ \E rs \in ResultLists, g \in {"monthly", "daily"} :
          run_args' = RunArgs(rs, run_args.validate, run_args.output_dir, run_args.keep_raw,
                              g, 2,
                              [archives |-> downloaded(run_args),
                               keep_raw |-> run_args.keep_raw])
    /\ run_pc' = "results"
    /\ run_log' = <<>>
    /\ disk' = IF run_args.output_dir = None
               THEN [raw |-> downloaded(run_args'), tmp |-> disk.tmp \cup {2}]
               ELSE [disk EXCEPT !.raw = @ \cup downloaded(run_args')]
    /\ run_table' = NoTable
    /\ UNCHANGED <<poolVars, planVars, procVars, valVars>>

RunNext ==
    \/ RunCheck
    \/ RunProcess
    \/ RunValidate
    \/ RunAgain

SpecRun == RunInit /\ [][RunNext]_vars

\* ---------------------------------------------------------- run claims
Logged(e) == \E k \in 1..Len(run_log) : run_log[k] = e
SomeFailed == \E k \in 1..Len(run_args.results) : ~run_args.results[k].success
SomeSucceeded == \E k \in 1..Len(run_args.results) : run_args.results[k].success

\* C13: if there are fetch outcomes and every one is a failure, the run ends
\* with NoDataAvailableError and nothing is decoded, merged or saved; if at
\* least one is a success (a reused file counts) the run goes on to
\* process_symbol and, when validation is requested and the table is not
\* empty, to validate_dataframe, and the failed files are only a warning.
C13_AllFailedOrPartial ==
    run_pc # "results" =>
        /\ (SomeFailed /\ ~SomeSucceeded) =>
              (run_pc = "NoDataAvailableError" /\ run_log = <<>>)
        /\ SomeSucceeded =>
              /\ run_pc # "NoDataAvailableError"
              /\ Logged("warning") <=> SomeFailed
              /\ run_pc # "process" => Logged("process_symbol")
              /\ run_pc = "done" =>
                    (Logged("validate_dataframe")
                       <=> (run_args.validate /\ Logged("save_dataframe")))

\* C13 witness: one reused file and one failed file: the run warns, decodes,
\* saves and validates.
C13_Witness ==
    /\ run_pc = "done"
    /\ run_args.results = <<DownloadResult("path", TRUE, None, TRUE),
                            DownloadResult("path", FALSE, ErrNotFound, FALSE)>>
    /\ run_log = <<"warning", "process_symbol", "save_dataframe", "validate_dataframe">>

\* ============================================ part 6: further pool claims
\* C23: with force a descriptor whose destination exists is not skipped: the
\* archive is requested again, and when the download succeeds the destination
\* holds the newly downloaded bytes and the outcome is success with
\* already_existed false.
C23_ForceRedownload ==
    \A i \in Idx :
        (force /\ files0[Path(i)] # NoFile) =>
            /\ pc[i] \notin {"pending", "cancelled"} => reqs[i] >= 1
            /\ Finished(i) => ~result[i].already_existed
            /\ Succeeded(i) =>
                  /\ result[i] = DownloadResult(Path(i), TRUE, None, FALSE)
                  /\ files[Path(i)] = last_resp[i].content
                  /\ files[Path(i)] \in Bytes

\* C23 witness: with force and verify, an existing file was downloaded again
\* and verified.
C23_Witness ==
    \E i \in Idx :
        /\ force /\ verify /\ files0[Path(i)] = OldBytes
        /\ Succeeded(i)
        /\ ck_reqs[i] = 1
        /\ files[Path(i)] \in Bytes

\* C27 as stated: with force, when the destination existed before the call
\* and the re-download ends in a failed outcome, the destination still holds
\* its previous bytes.
C27_PreviousBytesKept ==
    \A i \in Idx :
        (force /\ files0[Path(i)] # NoFile /\ Finished(i) /\ ~result[i].success) =>
            files[Path(i)] = files0[Path(i)]

\* C27 amended: after a failed outcome of 404, 429 or exhausted retries the
\* destination still holds its previous bytes; after a checksum mismatch the
\* destination does not exist.
C27_PreviousBytesKeptUnlessMismatch ==
    \A i \in Idx :
        (force /\ files0[Path(i)] # NoFile /\ Finished(i) /\ ~result[i].success) =>
            /\ result[i].error \in {ErrNotFound, ErrRateLimit, ErrAttempts, ErrChecksum}
            /\ result[i].error # ErrChecksum => files[Path(i)] = files0[Path(i)]
            /\ result[i].error = ErrChecksum => files[Path(i)] = NoFile

\* C27 witness: a forced re-download of an existing file failed its checksum.
C27_Witness ==
    \E i \in Idx :
        /\ force /\ files0[Path(i)] = OldBytes
        /\ Finished(i) /\ result[i].error = ErrChecksum
        /\ files[Path(i)] = NoFile

\* The event loop runs a coroutine that can run: every request is answered
\* and every sleep ends. This is weak fairness of Next, written out: every
\* step of Next changes the position of a coroutine or of the call, so
\* <<Next>>_vars is a change of position.
position == <<pc, call>>
FairSpec == Spec /\ ([]<>(~ENABLED Next) \/ []<><<TRUE>>_position)

\* Under FairSpec: for concurrency >= 1 the call eventually returns with every
\* descriptor finished with an outcome; with concurrency = 0 (and a descriptor
\* to fetch) no descriptor ever starts and the call never returns.
ReturnsEventually ==
    /\ concurrency >= 1 => <>(call = "returned" /\ \A i \in Idx : pc[i] = "done")
    /\ (concurrency = 0 /\ tasks # <<>>) =>
          [](call = "running" /\ \A i \in Idx : pc[i] = "pending")

\* C25: for concurrency >= 1 a call that is over has returned, with every
\* descriptor finished with an outcome (succeeded or failed); with
\* concurrency = 0 (and a descriptor to fetch) no descriptor ever starts and
\* the call is never over.
C25_Terminates ==
    /\ (concurrency >= 1 /\ call # "running") =>
          (call = "returned" /\ \A i \in Idx : pc[i] = "done")
    /\ (concurrency = 0 /\ tasks # <<>>) =>
          (call = "running" /\ \A i \in Idx : pc[i] = "pending")

\* ------------------------------------------------------- the second call
\* download_files_async has returned and is called again with the same tasks
\* and force=False: a new semaphore, new coroutines, the files as they are.
Rerun ==
    /\ call = "returned"
    /\ run = 1
    /\ run' = 2
    /\ first_results' = results
    /\ force' = FALSE
    /\ files0' = files
    /\ sem' = semaphore(concurrency)
    /\ holders' = {}
    /\ pc' = [i \in Idx |-> "pending"]
    /\ attempt' = [i \in Idx |-> 0]
    /\ result' = [i \in Idx |-> None]
    /\ reqs' = [i \in Idx |-> 0]
    /\ ck_reqs' = [i \in Idx |-> 0]
    /\ sleeps' = [i \in Idx |-> <<>>]
    /\ last_resp' = [i \in Idx |-> NoResponse]
    /\ ck_resp' = [i \in Idx |-> NoResponse]
    /\ callbacks' = <<>>
    /\ completed' = <<>>
    /\ call' = "running"
    /\ results' = None
    /\ UNCHANGED <<others, tasks, verify, concurrency, retries, progress_callback, files>>

NextRerun ==
    \/ \E i \in Idx : Start(i)
    \/ \E i \in Idx : \E resp \in ArchiveAnswers : ArchiveAnswer(i, resp)
    \/ \E i \in Idx : Wake(i)
    \/ \E i \in Idx : \E resp \in ChecksumAnswers : ChecksumAnswer(i, resp)
    \/ GatherReturn
    \/ GatherRaise
    \/ \E i \in Idx : Cancel(i)
    \/ Rerun

SpecRerun == Init /\ [][NextRerun]_vars

\* C26: in a second call on the same descriptors with force=False, a
\* descriptor whose first outcome was a success makes no request, gets
\* success with already_existed and its file is left as it was; a descriptor
\* whose first call failed and left no file is requested again, with the
\* whole retry budget.
C26_SecondRun ==
    run = 2 =>
        \A i \in Idx :
            /\ first_results[i].success => files0[Path(i)] # NoFile
            /\ (first_results[i].success /\ pc[i] \notin {"pending", "cancelled"}) =>
                  /\ Finished(i)
                  /\ result[i] = DownloadResult(Path(i), TRUE, None, TRUE)
                  /\ reqs[i] = 0 /\ ck_reqs[i] = 0
                  /\ files[Path(i)] = files0[Path(i)]
            /\ (~first_results[i].success /\ files0[Path(i)] = NoFile
                  /\ pc[i] \notin {"pending", "cancelled"}) =>
                  /\ reqs[i] >= 1
                  /\ (Finished(i) /\ ~result[i].success /\ FailedRetryably(i))
                        => reqs[i] = retries + 1

\* C26 witness: the second call has returned; one descriptor had succeeded
\* and was skipped, the other had failed and used its whole budget again.
C26_Witness ==
    /\ run = 2 /\ call = "returned" /\ retries >= 1
    /\ \E i, j \in Idx :
          /\ first_results[i].success /\ ~first_results[i].already_existed
          /\ result[i].already_existed /\ reqs[i] = 0
          /\ ~first_results[j].success /\ first_results[j].error = ErrAttempts
          /\ result[j].error = ErrAttempts /\ reqs[j] = retries + 1

\* =========================================== part 7: further planner claims
\* C24: the descriptors of one create_download_tasks call have pairwise
\* distinct date labels, URLs, checksum URLs and destination paths, so no
\* destination is the target of two fetches of the plan.
C24_DistinctDescriptors ==
    plan.state = "returned" =>
        \A j, k \in 1..Len(plan.tasks) :
            j # k =>
                /\ plan.tasks[j].date_str # plan.tasks[k].date_str
                /\ plan.tasks[j].url # plan.tasks[k].url
                /\ plan.tasks[j].checksum_url # plan.tasks[k].checksum_url
                /\ plan.tasks[j].output_path # plan.tasks[k].output_path

\* C24 witness: three monthly descriptors, over the year boundary.
C24_Witness ==
    /\ plan.state = "returned"
    /\ plan.granularity = "monthly"
    /\ is_none(plan_args.days) /\ plan_args.months = <<3>> /\ ~AbsoluteRange
    /\ Len(plan.tasks) = 3
    /\ plan.tasks[1].date_str = <<2023, 12>>
    /\ plan.tasks[3].output_path = <<"raw", "monthly", <<2023, 10>> >>

\* ======================================== part 8: further validation claims
\* the table as given has strictly increasing timestamps, each delta a
\* positive multiple of the cadence
OnGrid ==
    /\ HasTimestamp /\ df.rows > 0
    /\ \A k \in 1..(df.rows - 1) :
          /\ df.timestamp[k] < df.timestamp[k + 1]
          /\ (df.timestamp[k + 1] - df.timestamp[k]) % Cadence = 0
RECURSIVE SumMissing(_)
SumMissing(gs) == IF gs = <<>> THEN 0 ELSE Head(gs).missing_bars + SumMissing(Tail(gs))

\* C29 as stated: for a table on the cadence grid the missing_bars of the
\* gaps validate_dataframe found add up to expected_bars - total_bars, and
\* the table is valid exactly when total_bars = expected_bars.
C29_GridTable ==
    (validation.state = "returned" /\ OnGrid) =>
        /\ SumMissing(validation.gaps) = validation.expected_bars - validation.total_bars
        /\ validation.is_valid <=> validation.total_bars = validation.expected_bars

\* C29 amended: the same, for a validation that checks for gaps
\* (check_gaps true, the default).
C29_GridTableWithGapCheck ==
    (validation.state = "returned" /\ OnGrid /\ check_gaps) =>
        /\ SumMissing(validation.gaps) = validation.expected_bars - validation.total_bars
        /\ validation.is_valid <=> validation.total_bars = validation.expected_bars

\* C29 witness: a long table on the grid with one bar missing: more than 99%
\* of the expected rows, one gap of one bar, not valid.
C29_Witness ==
    /\ validation.state = "returned"
    /\ OnGrid /\ check_gaps
    /\ df.rows = LongBars
    /\ validation.expected_bars = validation.total_bars + 1
    /\ 100 * validation.total_bars >= 99 * validation.expected_bars
    /\ Len(validation.gaps) = 1
    /\ ~validation.is_valid

\* ========================================= part 9: further processor claims
\* the decoded rows in concatenation order, and the first of them with the
\* timestamp t
Concatenated == concat(decode_loop(zip_paths))
FirstWith(t) ==
    Concatenated[CHOOSE j \in 1..Len(Concatenated) :
                    /\ to_int(Concatenated[j].first) = t
                    /\ \A i \in 1..(j - 1) : to_int(Concatenated[i].first) # t]

\* C21: when several decoded rows share a timestamp, process_zip_files keeps
\* the row that comes first in concatenation order and discards the later ones.
C21_FirstOccurrenceKept ==
    processed.state = "returned" =>
        \A k \in 1..Len(processed.rows) :
            processed.rows[k].ohlcv = FirstWith(Epoch(k)).ohlcv

\* a first field that parses as an integer
ParsesAsInteger(s) == s \in {"1", "2", "-1"}

\* C22: process_zip_file skips the first record as a header exactly when its
\* first field does not parse as an integer, and otherwise takes every record
\* as data; so an archive with a header and one without that hold the same
\* data records decode to the same columns and rows.
C22_HeaderDetection ==
    \A k \in 1..Len(zip_paths) :
        decoded[k].state = "returned" =>
            /\ decoded[k].columns = KLINE_COLUMNS
            /\ decoded[k].rows = IF ParsesAsInteger(zip_paths[k].records[1].first)
                                 THEN zip_paths[k].records
                                 ELSE Tail(zip_paths[k].records)
            /\ \A j \in 1..Len(zip_paths) :
                  (/\ decoded[j].state = "returned"
                   /\ zip_paths[j].records # <<>>
                   /\ zip_paths[j].records[1].first = "open_time"
                   /\ ParsesAsInteger(zip_paths[k].records[1].first)
                   /\ Tail(zip_paths[j].records) = zip_paths[k].records)
                  => (decoded[j].columns = decoded[k].columns
                        /\ decoded[j].rows = decoded[k].rows)

\* =============================================== part 10: further run claims

\* C28 as stated: a run builds its table from every archive under the raw
\* directory, monthly and daily, whether or not of this run; so the table of
\* a second run into the same output_dir covers the archives of both runs.
C28_AllArchivesFound ==
    /\ run_pc = "validate" => run_table.sources = disk.raw
    /\ (run_args.n = 2 /\ run_args.output_dir = "given" /\ run_pc \in {"validate", "done"}) =>
          (run_args.prev.archives \cup downloaded(run_args)) \subseteq run_table.sources

\* C28 amended: the same, the second part for a first run that kept its raw
\* archives (keep_raw true, the default).
C28_AllArchivesFoundIfKept ==
    /\ run_pc = "validate" => run_table.sources = disk.raw
    /\ (run_args.n = 2 /\ run_args.output_dir = "given" /\ run_pc \in {"validate", "done"}
          /\ run_args.prev.keep_raw) =>
          (run_args.prev.archives \cup downloaded(run_args)) \subseteq run_table.sources

\* C28 witness: a monthly first run and a daily second run into the same
\* output_dir: the second table is built from the archives of both.
C28_Witness ==
    /\ run_args.n = 2 /\ run_args.output_dir = "given" /\ run_args.keep_raw
    /\ run_pc = "done"
    /\ run_table.rows = "rows"
    /\ \E a, b \in run_table.sources :
          /\ a.dir = "monthly" /\ a \in run_args.prev.archives
          /\ b.dir = "daily" /\ b \in downloaded(run_args)

\* C30: when a run without output_dir is over, by a return or by an
\* exception, its temporary directory no longer exists.
C30_TempDirRemoved ==
    (run_args.output_dir = None /\ run_pc \in {"done", "NoDataAvailableError", "ValueError"}) => run_args.n \notin disk.tmp

====
